---- MODULE Spec2Model ----
(***************************************************************************)
(* Model of app.py: the PE percentile / win-rate page.                     *)
(*                                                                         *)
(* get_data_via_akshare() fetches a frame of (date, pe) rows, sorts it by  *)
(* date, ranks the pe column (pandas Series.rank(pct=True), i.e. average   *)
(* ranks divided by the number of non-NaN values) and derives win_rate.    *)
(* main() reads the latest row, classifies its win rate with get_status()  *)
(* and computes the 0.10 and 0.20 quantiles of pe (pandas Series.quantile, *)
(* linear interpolation, NaN skipped).                                     *)
(*                                                                         *)
(* Numbers are exact rationals [n, d] in lowest terms with d > 0; the      *)
(* float NaN is the record with d = 0.  Every comparison with NaN is       *)
(* false and every arithmetic operation on NaN gives NaN, as in IEEE 754.  *)
(***************************************************************************)
EXTENDS Integers, Sequences, FiniteSets

VARIABLES raw, pc, df, df_none, err, cur_pe, cur_win, status, pe_win_90, pe_win_80

vars == <<raw, pc, df, df_none, err, cur_pe, cur_win, status, pe_win_90, pe_win_80>>

----------------------------------------------------------------------------
(* Bounds of the explored inputs *)

MaxLen == 4
MaxRatio == 3
MaxLenT == 5
MaxLong == 22
WinRateDenom == 10

----------------------------------------------------------------------------
(* Rational arithmetic with NaN *)

NaN == [n |-> 0, d |-> 0]

Abs(x) == IF x < 0 THEN -x ELSE x

RECURSIVE GCD(_, _)
GCD(a, b) == IF b = 0 THEN a ELSE GCD(b, a % b)

R(n, d) ==
    IF d = 0 THEN NaN
    ELSE LET s == IF d < 0 THEN -1 ELSE 1
             g == GCD(Abs(n), Abs(d))
         IN  [n |-> (s * n) \div g, d |-> (s * d) \div g]

IsNaN(a) == a.d = 0

RAdd(a, b) == IF IsNaN(a) \/ IsNaN(b) THEN NaN ELSE R(a.n * b.d + b.n * a.d, a.d * b.d)
RSub(a, b) == IF IsNaN(a) \/ IsNaN(b) THEN NaN ELSE R(a.n * b.d - b.n * a.d, a.d * b.d)
RMul(a, b) == IF IsNaN(a) \/ IsNaN(b) THEN NaN ELSE R(a.n * b.n, a.d * b.d)
RDiv(a, b) == IF IsNaN(a) \/ IsNaN(b) \/ b.n = 0 THEN NaN ELSE R(a.n * b.d, a.d * b.n)

RLt(a, b)  == ~IsNaN(a) /\ ~IsNaN(b) /\ a.n * b.d < b.n * a.d
RLeq(a, b) == ~IsNaN(a) /\ ~IsNaN(b) /\ a.n * b.d <= b.n * a.d
RGeq(a, b) == RLeq(b, a)

Floor(a) == a.n \div a.d

----------------------------------------------------------------------------
(* Sequence helpers *)

RECURSIVE SumSet(_)
SumSet(S) == IF S = {} THEN 0 ELSE LET x == CHOOSE y \in S : TRUE IN x + SumSet(S \ {x})

RECURSIVE FilterSeq(_, _)
FilterSeq(s, keep) ==
    IF s = <<>> THEN <<>>
    ELSE IF keep[1] THEN <<Head(s)>> \o FilterSeq(Tail(s), Tail(keep))
         ELSE FilterSeq(Tail(s), Tail(keep))

(* the non-NaN values of a column, in row order *)
DropNa(col) == FilterSeq(col, [i \in 1..Len(col) |-> ~IsNaN(col[i])])

RECURSIVE InsertVal(_, _)
InsertVal(v, s) ==
    IF s = <<>> THEN <<v>>
    ELSE IF RLt(v, Head(s)) THEN <<v>> \o s
         ELSE <<Head(s)>> \o InsertVal(v, Tail(s))

RECURSIVE SortVals(_)
SortVals(s) == IF s = <<>> THEN <<>> ELSE InsertVal(Head(s), SortVals(Tail(s)))

RECURSIVE InsertRow(_, _)
InsertRow(r, s) ==
    IF s = <<>> THEN <<r>>
    ELSE IF r.date < Head(s).date THEN <<r>> \o s
         ELSE <<Head(s)>> \o InsertRow(r, Tail(s))

(* df.sort_values('date') *)
RECURSIVE SortByDate(_)
SortByDate(s) == IF s = <<>> THEN <<>> ELSE InsertRow(Head(s), SortByDate(Tail(s)))

Column(rows) == [i \in 1..Len(rows) |-> rows[i].pe]

----------------------------------------------------------------------------
(* pandas Series.rank(pct=True): average ranks over the non-NaN values,   *)
(* divided by their count; a NaN value keeps a NaN rank                    *)

(* union of the sorted positions (1-based) that hold value v *)
TiedPositions(sorted, v) == {i \in 1..Len(sorted) : sorted[i] = v}

(* method='max', method='min' and ascending=False in place of the default *)
MaxRank(sorted, v) ==
    LET P == TiedPositions(sorted, v) IN R(CHOOSE p \in P : \A o \in P : o <= p, 1)

MinRank(sorted, v) ==
    LET P == TiedPositions(sorted, v) IN R(CHOOSE p \in P : \A o \in P : p <= o, 1)

DescendingRank(sorted, v) ==
    LET P == TiedPositions(sorted, v)
    IN  R(SumSet({Len(sorted) + 1 - p : p \in P}), Cardinality(P))

(* method='average': the mean of the positions of the tied group *)
AverageRank(sorted, v) ==
    LET P == TiedPositions(sorted, v) IN R(SumSet(P), Cardinality(P))

RankPct(col, i) ==
    IF IsNaN(col[i]) THEN NaN
    ELSE LET sorted == SortVals(DropNa(col))
         IN  RDiv(AverageRank(sorted, col[i]), R(Len(sorted), 1))

(* line 36: df['pe'].rank(pct=True) * 100 *)
Percentile(col, i) == RMul(RankPct(col, i), R(100, 1))

(* the percentile taken for a fraction of 1 *)
WinRateOfFraction(percentile) == RSub(R(1, 1), percentile)

(* line 39: 100 - df['percentile'] *)
WinRate(percentile) == RSub(R(100, 1), percentile)

(* lines 31-41: sort by date, add the two columns *)
RankFrame(rows) ==
    LET sorted == SortByDate(rows)
        col    == Column(sorted)
    IN  [i \in 1..Len(sorted) |->
            LET p == Percentile(col, i)
            IN  [date |-> sorted[i].date, pe |-> sorted[i].pe,
                 percentile |-> p, win_rate |-> WinRate(p)]]

----------------------------------------------------------------------------
(* pandas Series.quantile(q): NaN skipped, linear interpolation between   *)
(* the order statistics around the virtual index (n - 1) * q               *)

(* interpolation='lower' in place of the default 'linear' *)
QuantileLower(col, q) ==
    LET x == SortVals(DropNa(col))
        n == Len(x)
    IN  IF n = 0 THEN NaN ELSE x[Floor(RMul(R(n - 1, 1), q)) + 1]

Quantile(col, q) ==
    LET x == SortVals(DropNa(col))
        n == Len(x)
    IN  IF n = 0 THEN NaN
        ELSE LET h  == RMul(R(n - 1, 1), q)
                 lo == Floor(h)
                 hi == IF lo + 1 <= n - 1 THEN lo + 1 ELSE lo
                 g  == RSub(h, R(lo, 1))
             IN  RAdd(x[lo + 1], RMul(g, RSub(x[hi + 1], x[lo + 1])))

(* quantile(0.01) in place of quantile(0.10) *)
QWin90Slip == R(1, 100)

(* line 89 and line 91: the quantile arguments *)
QWin90 == R(10, 100)
QWin80 == R(20, 100)

----------------------------------------------------------------------------
(* get_status, lines 50-54 *)

HighBand == 80
ModerateBand == 50

(* strict comparisons in place of the inclusive ones *)
get_status_strict(win_rate) ==
    IF RLt(R(HighBand, 1), win_rate) THEN <<"HighWinRate", "success">>
    ELSE IF RLt(R(ModerateBand, 1), win_rate) THEN <<"ModerateWinRate", "info">>
    ELSE <<"LowWinRate", "error">>

get_status(win_rate) ==
    IF RGeq(win_rate, R(HighBand, 1)) THEN <<"HighWinRate", "success">>
    ELSE IF RGeq(win_rate, R(ModerateBand, 1)) THEN <<"ModerateWinRate", "info">>
    ELSE <<"LowWinRate", "error">>

NoStatus == <<"", "">>

----------------------------------------------------------------------------
(* Inputs: the frame ak.stock_a_ttm_lyr() returns *)

NonPositive == {-1, 0}

RatioDomain == {NaN} \cup {R(v, 1) : v \in NonPositive \cup (1..MaxRatio)}

(* the rows arrive in ascending or in descending date order *)
WithDates(pes, asc) ==
    [i \in 1..Len(pes) |->
        [date |-> IF asc THEN i ELSE Len(pes) + 1 - i, pe |-> pes[i]]]

SeqsUpTo(D, k) == UNION {[1..n -> D] : n \in 0..k}

ShortFrames == {WithDates(s, asc) : s \in SeqsUpTo(RatioDomain, MaxLen), asc \in BOOLEAN}

(* the ratios of the worked example: 10, 20, 30, 40, 50 *)
Grid == {R(10 * k, 1) : k \in 1..5}

GridFrames == {WithDates(s, TRUE) : s \in SeqsUpTo(Grid, MaxLenT)}

(* a series of n rows holding a times 1, then b times 2, then 3 *)
StepSeries(n, a, b) ==
    [i \in 1..n |-> IF i <= a THEN R(1, 1) ELSE IF i <= a + b THEN R(2, 1) ELSE R(3, 1)]

LongFrames ==
    {WithDates(StepSeries(n, a, b), asc) :
        n \in 0..MaxLong, a \in 0..MaxLong, b \in 0..MaxLong, asc \in BOOLEAN}

WinRateGrid == {NaN} \cup {R(t, WinRateDenom) : t \in 0..(100 * WinRateDenom)}

----------------------------------------------------------------------------
(* State machine *)

Start(frames) ==
    /\ raw \in frames
    /\ pc = "start"
    /\ df = <<>>
    /\ df_none = FALSE
    /\ err = ""
    /\ cur_pe = NaN
    /\ cur_win = NaN
    /\ status = NoStatus
    /\ pe_win_90 = NaN
    /\ pe_win_80 = NaN

Init == Start(ShortFrames)

InitThreshold == Start(GridFrames)

InitLong == Start(LongFrames)

(* get_status applied to a win rate drawn from a grid of values *)
InitStatus ==
    /\ raw = <<>>
    /\ pc = "status"
    /\ df = <<>>
    /\ df_none = FALSE
    /\ err = ""
    /\ cur_pe = NaN
    /\ cur_win \in WinRateGrid
    /\ status = NoStatus
    /\ pe_win_90 = NaN
    /\ pe_win_80 = NaN

(* get_data_via_akshare, lines 15-45: the fetch raises, or the frame has  *)
(* no pe column (in both cases no (date, pe) frame was received and None   *)
(* is returned after st.error), or the ranked frame is returned            *)
GetDataRaises ==
    /\ pc = "start"
    /\ df_none' = TRUE
    /\ err' = "exception"
    /\ pc' = "fetched"
    /\ raw' = <<>>
    /\ UNCHANGED <<df, cur_pe, cur_win, status, pe_win_90, pe_win_80>>

GetDataNoPeColumn ==
    /\ pc = "start"
    /\ df_none' = TRUE
    /\ err' = "no pe column"
    /\ pc' = "fetched"
    /\ raw' = <<>>
    /\ UNCHANGED <<df, cur_pe, cur_win, status, pe_win_90, pe_win_80>>

GetDataOk ==
    /\ pc = "start"
    /\ df' = RankFrame(raw)
    /\ df_none' = FALSE
    /\ pc' = "fetched"
    /\ UNCHANGED <<raw, err, cur_pe, cur_win, status, pe_win_90, pe_win_80>>

(* main, line 70: df is None, nothing is drawn *)
MainNone ==
    /\ pc = "fetched"
    /\ df_none
    /\ pc' = "done"
    /\ UNCHANGED <<raw, df, df_none, err, cur_pe, cur_win, status, pe_win_90, pe_win_80>>

(* main, line 71: df.iloc[-1] on an empty frame raises IndexError *)
LatestIndexError ==
    /\ pc = "fetched"
    /\ ~df_none
    /\ Len(df) = 0
    /\ pc' = "crashed"
    /\ UNCHANGED <<raw, df, df_none, err, cur_pe, cur_win, status, pe_win_90, pe_win_80>>

(* main, lines 71-73 *)
ReadLatest ==
    /\ pc = "fetched"
    /\ ~df_none
    /\ Len(df) > 0
    /\ cur_pe' = df[Len(df)].pe
    /\ cur_win' = df[Len(df)].win_rate
    /\ pc' = "status"
    /\ UNCHANGED <<raw, df, df_none, err, status, pe_win_90, pe_win_80>>

(* main, line 76 *)
GetStatus ==
    /\ pc = "status"
    /\ status' = get_status(cur_win)
    /\ pc' = "thresholds"
    /\ UNCHANGED <<raw, df, df_none, err, cur_pe, cur_win, pe_win_90, pe_win_80>>

(* main, lines 89-91, then the chart and the table are drawn *)
Thresholds ==
    /\ pc = "thresholds"
    /\ pe_win_90' = Quantile(Column(df), QWin90)
    /\ pe_win_80' = Quantile(Column(df), QWin80)
    /\ pc' = "done"
    /\ UNCHANGED <<raw, df, df_none, err, cur_pe, cur_win, status>>

Next ==
    \/ GetDataRaises
    \/ GetDataNoPeColumn
    \/ GetDataOk
    \/ MainNone
    \/ LatestIndexError
    \/ ReadLatest
    \/ GetStatus
    \/ Thresholds

NextStatus == GetStatus

Spec == Init /\ [][Next]_vars

SpecThreshold == InitThreshold /\ [][Next]_vars

SpecLong == InitLong /\ [][Next]_vars

SpecStatus == InitStatus /\ [][NextStatus]_vars

----------------------------------------------------------------------------
(* Vocabulary of the properties *)

(* get_data_via_akshare has returned a frame *)
Returned == pc \in {"fetched", "status", "thresholds", "done", "crashed"} /\ ~df_none

(* main has computed the two thresholds *)
ThresholdsDone == pc = "done" /\ ~df_none

(* a valid observation: its ratio is present and positive *)
Valid(v) == ~IsNaN(v) /\ v.n > 0

NonPositiveRatio(v) == ~IsNaN(v) /\ v.n <= 0

(* the fetched frame keeps the input contract: every ratio is positive or absent *)
ContractInput == \A i \in 1..Len(raw) : ~NonPositiveRatio(raw[i].pe)

ValidRows == {i \in 1..Len(df) : Valid(df[i].pe)}

NValid == Cardinality(ValidRows)

CountBelow(v) == Cardinality({j \in ValidRows : RLt(df[j].pe, v)})

CountEqual(v) == Cardinality({j \in ValidRows : df[j].pe = v})

CountAtOrBelow(v) == Cardinality({j \in ValidRows : RLeq(df[j].pe, v)})

(* the k-th (0-based) smallest valid ratio *)
OrderStat(k) ==
    CHOOSE v \in {df[i].pe : i \in ValidRows} : CountBelow(v) <= k /\ k < CountAtOrBelow(v)

(* the threshold of win rate w: h = (N - 1) * (1 - w/100), interpolated *)
Interpolated(w) ==
    LET m == (NValid - 1) * (100 - w)
        f == m \div 100
        t == m % 100
    IN  IF t = 0 THEN OrderStat(f)
        ELSE RAdd(OrderStat(f), RMul(R(t, 100), RSub(OrderStat(f + 1), OrderStat(f))))

(* the ratios are 10, 20, 30, 40, 50 in some order *)
ExampleSeries ==
    /\ Len(df) = 5
    /\ {df[i].pe : i \in 1..Len(df)} = {R(10 * k, 1) : k \in 1..5}

----------------------------------------------------------------------------
(* Properties *)

(* C1: for every ranked observation of the returned frame (a row whose     *)
(* ratio is present), percentile and win_rate are defined and              *)
(* percentile + win_rate = 100 exactly.                                    *)
C1_Partition ==
    Returned =>
        \A i \in 1..Len(df) :
            ~IsNaN(df[i].pe) =>
                /\ ~IsNaN(df[i].percentile)
                /\ ~IsNaN(df[i].win_rate)
                /\ RAdd(df[i].percentile, df[i].win_rate) = R(100, 1)

C1_Witness ==
    /\ Returned
    /\ \E i \in 1..Len(df) : df[i].percentile = R(75, 1) /\ df[i].win_rate = R(25, 1)

(* C2 as stated: in a frame of N valid observations, the percentile of x   *)
(* is 100 * (number of observations with ratio <= ratio(x)) / N, equal     *)
(* ratios included.                                                        *)
C2_CountAtOrBelow ==
    (Returned /\ ContractInput) =>
        \A i \in ValidRows :
            df[i].percentile = R(100 * CountAtOrBelow(df[i].pe), NValid)

(* C2 amended: in a frame of N valid observations, the percentile of x is  *)
(* 100 * (b + (e + 1) / 2) / N, with b the number of observations whose    *)
(* ratio is below ratio(x) and e the number whose ratio equals it (x       *)
(* included); this is 100 * (number with ratio <= ratio(x)) / N exactly    *)
(* when no other observation has the ratio of x.                           *)
C2_TieAveraged ==
    (Returned /\ ContractInput) =>
        \A i \in ValidRows :
            LET b == CountBelow(df[i].pe)
                e == CountEqual(df[i].pe)
            IN  /\ df[i].percentile = R(100 * (2 * b + e + 1), 2 * NValid)
                /\ (e = 1 => df[i].percentile = R(100 * CountAtOrBelow(df[i].pe), NValid))

C2_Witness ==
    /\ Returned
    /\ ContractInput
    /\ \E i \in ValidRows :
        /\ CountEqual(df[i].pe) = 2
        /\ CountBelow(df[i].pe) = 0
        /\ NValid = 3
        /\ df[i].percentile = R(50, 1)

(* C3: in a population of N valid observations, k >= 2 observations that   *)
(* share a ratio and occupy the sorted positions r .. r+k-1 all get the    *)
(* percentile 100 * (r + (k - 1) / 2) / N.                                 *)
C3_TieMidpoint ==
    (Returned /\ ContractInput) =>
        \A i \in ValidRows :
            LET k == CountEqual(df[i].pe)
                r == CountBelow(df[i].pe) + 1
            IN  k >= 2 =>
                    /\ df[i].percentile = R(100 * (2 * r + k - 1), 2 * NValid)
                    /\ \A j \in ValidRows :
                           df[j].pe = df[i].pe => df[j].percentile = df[i].percentile

C3_Witness ==
    /\ Returned
    /\ ContractInput
    /\ \E i, j \in ValidRows :
        /\ i # j
        /\ df[i].pe = df[j].pe
        /\ CountBelow(df[i].pe) = 1
        /\ NValid = 4
        /\ df[i].percentile = R(125, 2)
        /\ df[j].percentile = R(125, 2)

(* C4: for valid observations A, B of one frame with ratio(A) < ratio(B),  *)
(* percentile(A) <= percentile(B) and win_rate(A) >= win_rate(B).          *)
C4_Monotone ==
    Returned =>
        \A a, b \in ValidRows :
            RLt(df[a].pe, df[b].pe) =>
                /\ RLeq(df[a].percentile, df[b].percentile)
                /\ RGeq(df[a].win_rate, df[b].win_rate)

C4_Witness ==
    /\ Returned
    /\ \E a, b \in ValidRows :
        /\ RLt(df[a].pe, df[b].pe)
        /\ a > b
        /\ RLt(df[a].percentile, df[b].percentile)
        /\ RLt(df[b].win_rate, df[a].win_rate)

(* C5: the threshold of win rate w is the (1 - w/100) quantile of the      *)
(* valid ratios sorted ascending, x[floor(h)] + (h - floor(h)) *           *)
(* (x[floor(h)+1] - x[floor(h)]) with h = (N - 1) * (1 - w/100); the 90%   *)
(* line is the 0.10 quantile, the 80% line the 0.20 quantile, and for the  *)
(* ratios 10, 20, 30, 40, 50 the 80% threshold is 18.                      *)
C5_LinearInterpolation ==
    (ThresholdsDone /\ ContractInput /\ NValid >= 1) =>
        /\ pe_win_90 = Interpolated(90)
        /\ pe_win_80 = Interpolated(80)
        /\ (ExampleSeries => pe_win_80 = R(18, 1))

C5_Witness ==
    /\ ThresholdsDone
    /\ ExampleSeries
    /\ pe_win_80 = R(18, 1)
    /\ pe_win_90 = R(14, 1)

(* C6: for a non-empty frame of N valid observations, the number of        *)
(* observations with a ratio at or below the 90% threshold is at least     *)
(* 0.10 * N - 1.                                                           *)
C6_QuantileRankConsistency ==
    (ThresholdsDone /\ ContractInput /\ NValid >= 1) =>
        10 * CountAtOrBelow(pe_win_90) >= NValid - 10

C6_Witness ==
    /\ ThresholdsDone
    /\ ContractInput
    /\ NValid >= 21
    /\ CountAtOrBelow(pe_win_90) = 3
    /\ RLt(R(1, 1), pe_win_90)
    /\ RLt(pe_win_90, R(2, 1))

(* C7: get_status puts a win rate of [0, 100] in exactly one band: high    *)
(* when it is >= 80, moderate when it is >= 50 and below 80, low below 50. *)
C7_Bands ==
    (pc = "thresholds" /\ RLeq(R(0, 1), cur_win) /\ RLeq(cur_win, R(100, 1))) =>
        /\ status \in {<<"HighWinRate", "success">>, <<"ModerateWinRate", "info">>,
                       <<"LowWinRate", "error">>}
        /\ (status[1] = "HighWinRate") = (cur_win.n >= 80 * cur_win.d)
        /\ (status[1] = "ModerateWinRate") =
               (cur_win.n >= 50 * cur_win.d /\ cur_win.n < 80 * cur_win.d)
        /\ (status[1] = "LowWinRate") = (cur_win.n < 50 * cur_win.d)

C7_Witness ==
    /\ pc = "thresholds"
    /\ cur_win = R(80, 1)
    /\ status = <<"HighWinRate", "success">>

(* C8: a frame with no valid observation makes the refresh fail with an    *)
(* error that is shown (here: any error shown, or the run aborted), and no *)
(* status of a latest observation is produced.                             *)
C8_EmptyPopulationFails ==
    (pc \in {"done", "crashed"} /\ ContractInput /\ \A i \in 1..Len(raw) : ~Valid(raw[i].pe)) =>
        /\ err # "" \/ pc = "crashed"
        /\ status = NoStatus

(* C9: an observation with a present ratio <= 0 gets no percentile, and    *)
(* the percentiles, win rates and thresholds of the others are those of    *)
(* the frame with that observation removed.                                *)
C9_NonPositiveExcluded ==
    (Returned /\ NValid >= 1) =>
        LET kept == RankFrame(FilterSeq(raw, [i \in 1..Len(raw) |-> ~NonPositiveRatio(raw[i].pe)]))
        IN  /\ \A i \in 1..Len(df) :
                   IF NonPositiveRatio(df[i].pe) THEN IsNaN(df[i].percentile)
                   ELSE \E j \in 1..Len(kept) :
                            /\ kept[j].date = df[i].date
                            /\ kept[j].percentile = df[i].percentile
                            /\ kept[j].win_rate = df[i].win_rate
            /\ pc = "done" =>
                   /\ pe_win_90 = Quantile(Column(kept), QWin90)
                   /\ pe_win_80 = Quantile(Column(kept), QWin80)

(* C10: a returned frame (here: one of positive or absent ratios with at  *)
(* least one valid observation) has a defined percentile and win_rate in   *)
(* every row.                                                              *)
C10_NoPartialSuccess ==
    (Returned /\ ContractInput /\ NValid >= 1) =>
        \A i \in 1..Len(df) : ~IsNaN(df[i].percentile) /\ ~IsNaN(df[i].win_rate)

====
